---- MODULE Spec2Model ----
(***************************************************************************)
(* Model of the `tin` crate: parsing and validation of U.S. taxpayer       *)
(* identification numbers (SSN, ITIN, ATIN) and the auto-detecting Tin     *)
(* enum.  Every operation of the crate is a pure function; the state       *)
(* machine draws an input (a field triple and a text) in Init and applies  *)
(* the public operations to it, keeping the last validated value.          *)
(***************************************************************************)
EXTENDS Integers, Sequences, FiniteSets, TLC

VARIABLES area, group, serial, text, val, res, op

vars == <<area, group, serial, text, val, res, op>>

(***************************************************************************)
(* Bounds of the explored inputs.                                          *)
(***************************************************************************)
\* half-width of the window of sampled values around every range boundary
Radius == 1

U16Max == 65535
U8Max == 255

Window(b, max) == {n \in (b - Radius)..(b + Radius) : n >= 0 /\ n <= max}

\* sampled u16 areas: around 0, 666, 899/900, 999/1000, u16::MAX, and 123
AreaSamples ==
    Window(0, U16Max) \cup Window(666, U16Max) \cup Window(899, U16Max)
      \cup Window(1000, U16Max) \cup Window(U16Max, U16Max) \cup {123}

\* sampled u8 groups: around every edge of the SSN, ITIN and ATIN group rules
GroupSamples ==
    Window(0, U8Max) \cup Window(50, U8Max) \cup Window(65, U8Max)
      \cup Window(70, U8Max) \cup Window(88, U8Max) \cup Window(90, U8Max)
      \cup Window(93, U8Max) \cup Window(99, U8Max) \cup Window(U8Max, U8Max)
      \cup {10, 45}

\* sampled u16 serials: around 0, 9999/10000, u16::MAX, and 1234
SerialSamples ==
    Window(0, U16Max) \cup Window(9999, U16Max) \cup Window(U16Max, U16Max)
      \cup {1234}

(***************************************************************************)
(* Characters and strings.  A string is a sequence of characters; a        *)
(* character is a one-character TLA+ string, except "U+0663", the          *)
(* ARABIC-INDIC DIGIT THREE, a decimal digit (category Nd) that takes two  *)
(* bytes in UTF-8.                                                         *)
(***************************************************************************)
AsciiDigits == {"0", "1", "2", "3", "4", "5", "6", "7", "8", "9"}

UnicodeDigit == "U+0663"

\* characters used to damage a well-formed text
MutChars == {"0", "7", "-", "a", " ", "+", UnicodeDigit}

DigitChar(d) ==
    CASE d = 0 -> "0" [] d = 1 -> "1" [] d = 2 -> "2" [] d = 3 -> "3"
      [] d = 4 -> "4" [] d = 5 -> "5" [] d = 6 -> "6" [] d = 7 -> "7"
      [] d = 8 -> "8" [] d = 9 -> "9"

DigitVal(c) == CHOOSE d \in 0..9 : DigitChar(d) = c

\* number of bytes of the UTF-8 encoding of a character
ByteLen(c) == IF c = UnicodeDigit THEN 2 ELSE 1

RECURSIVE StrByteLen(_)
StrByteLen(s) == IF s = <<>> THEN 0 ELSE ByteLen(Head(s)) + StrByteLen(Tail(s))

(***************************************************************************)
(* Results.                                                                *)
(***************************************************************************)
Ok(v) == [tag |-> "Ok", val |-> v]
Err(e) == [tag |-> "Err", err |-> e]
Panic == [tag |-> "Panic"]
NoRes == [tag |-> "None"]

InvalidFormat(s) == [kind |-> "InvalidFormat", input |-> s]
InvalidArea(a) == [kind |-> "InvalidArea", value |-> a]
InvalidGroup(g) == [kind |-> "InvalidGroup", value |-> g]
InvalidSerial(n) == [kind |-> "InvalidSerial", value |-> n]

IsOk(r) == r.tag = "Ok"
IsErr(r) == r.tag = "Err"

(***************************************************************************)
(* Validated values.                                                       *)
(***************************************************************************)
NoVal == [type |-> "None"]
Ssn(a, g, n) == [type |-> "Ssn", area |-> a, group |-> g, serial |-> n]
Itin(a, g, n) == [type |-> "Itin", area |-> a, group |-> g, serial |-> n]
Atin(a, g, n) == [type |-> "Atin", area |-> a, group |-> g, serial |-> n]
Tin(v) == [type |-> "Tin", variant |-> v.type, inner |-> v]

(***************************************************************************)
(* Per-type validators.                                                    *)
(***************************************************************************)
\* SsnValidate with the upper area bound off by one
SsnValidateArea900(a, g, n) ==
    IF a = 0 \/ a = 666 \/ a > 900 THEN Err(InvalidArea(a))
    ELSE IF g = 0 \/ g > 99 THEN Err(InvalidGroup(g))
    ELSE IF n = 0 \/ n > 9999 THEN Err(InvalidSerial(n))
    ELSE Ok(<<>>)

SsnValidate(a, g, n) ==
    IF a = 0 \/ a = 666 \/ a > 899 THEN Err(InvalidArea(a))
    ELSE IF g = 0 \/ g > 99 THEN Err(InvalidGroup(g))
    ELSE IF n = 0 \/ n > 9999 THEN Err(InvalidSerial(n))
    ELSE Ok(<<>>)

SsnNew(a, g, n) ==
    IF IsOk(SsnValidate(a, g, n)) THEN Ok(Ssn(a, g, n)) ELSE SsnValidate(a, g, n)

\* is_valid_itin_group with the ATIN group 93 not left out
is_valid_itin_group_with93(g) ==
    g \in 50..65 \/ g \in 70..88 \/ g \in 90..99

is_valid_itin_group(g) ==
    g \in 50..65 \/ g \in 70..88 \/ g \in 90..92 \/ g \in 94..99

\* ItinValidate checking the group before the area
ItinValidateGroupFirst(a, g, n) ==
    IF ~is_valid_itin_group(g) THEN Err(InvalidGroup(g))
    ELSE IF ~(a \in 900..999) THEN Err(InvalidArea(a))
    ELSE IF n > 9999 THEN Err(InvalidSerial(n))
    ELSE Ok(<<>>)

ItinValidate(a, g, n) ==
    IF ~(a \in 900..999) THEN Err(InvalidArea(a))
    ELSE IF ~is_valid_itin_group(g) THEN Err(InvalidGroup(g))
    ELSE IF n > 9999 THEN Err(InvalidSerial(n))
    ELSE Ok(<<>>)

ItinNew(a, g, n) ==
    IF IsOk(ItinValidate(a, g, n)) THEN Ok(Itin(a, g, n)) ELSE ItinValidate(a, g, n)

\* AtinValidate applying the SSN rule to the serial
AtinValidateSerialNonZero(a, g, n) ==
    IF ~(a \in 900..999) THEN Err(InvalidArea(a))
    ELSE IF g # 93 THEN Err(InvalidGroup(g))
    ELSE IF n = 0 \/ n > 9999 THEN Err(InvalidSerial(n))
    ELSE Ok(<<>>)

\* AtinValidate accepting every group from 93 up
AtinValidateGroupFrom93(a, g, n) ==
    IF ~(a \in 900..999) THEN Err(InvalidArea(a))
    ELSE IF g < 93 THEN Err(InvalidGroup(g))
    ELSE IF n > 9999 THEN Err(InvalidSerial(n))
    ELSE Ok(<<>>)

AtinValidate(a, g, n) ==
    IF ~(a \in 900..999) THEN Err(InvalidArea(a))
    ELSE IF g # 93 THEN Err(InvalidGroup(g))
    ELSE IF n > 9999 THEN Err(InvalidSerial(n))
    ELSE Ok(<<>>)

AtinNew(a, g, n) ==
    IF IsOk(AtinValidate(a, g, n)) THEN Ok(Atin(a, g, n)) ELSE AtinValidate(a, g, n)

(***************************************************************************)
(* Format extractor: TIN_PATTERN and parse_components.                     *)
(***************************************************************************)
\* the regex class \d: any Unicode decimal digit, not only the ASCII ones
IsRegexDigit(c) == c \in AsciiDigits \/ c = UnicodeDigit

AllRegexDigits(s) == \A i \in 1..Len(s) : IsRegexDigit(s[i])

\* first alternate of TIN_PATTERN: ^(\d{3})-(\d{2})-(\d{4})$
MatchDashed(s) ==
    /\ Len(s) = 11
    /\ AllRegexDigits(SubSeq(s, 1, 3))
    /\ s[4] = "-"
    /\ AllRegexDigits(SubSeq(s, 5, 6))
    /\ s[7] = "-"
    /\ AllRegexDigits(SubSeq(s, 8, 11))

\* second alternate of TIN_PATTERN: ^(\d{9})$
MatchUndashed(s) == Len(s) = 9 /\ AllRegexDigits(s)

TIN_PATTERN(s) == MatchDashed(s) \/ MatchUndashed(s)

\* byte offset at which the i-th character (1-based) of s starts
ByteOffset(s, i) == StrByteLen(SubSeq(s, 1, i - 1))

IsCharBoundary(s, b) == \E i \in 1..(Len(s) + 1) : ByteOffset(s, i) = b

\* &s[lo..hi] on a str: byte offsets, panics unless both are char boundaries
ByteSlice(s, lo, hi) ==
    IF IsCharBoundary(s, lo) /\ IsCharBoundary(s, hi) /\ lo <= hi
    THEN Ok(SelectSeq([i \in 1..Len(s) |-> <<ByteOffset(s, i), s[i]>>],
                      LAMBDA p : p[1] >= lo /\ p[1] < hi))
    ELSE Panic

Chars(ps) == [i \in 1..Len(ps) |-> ps[i][2]]

RECURSIVE DecimalValue(_)
DecimalValue(s) ==
    IF s = <<>> THEN 0
    ELSE 10 * DecimalValue(SubSeq(s, 1, Len(s) - 1)) + DigitVal(s[Len(s)])

\* str::parse for an unsigned integer type with the given maximum
ParseUint(s, max) ==
    LET body == IF s # <<>> /\ Head(s) = "+" THEN Tail(s) ELSE s
    IN  IF body = <<>> \/ (\E i \in 1..Len(body) : body[i] \notin AsciiDigits)
        THEN Err(<<>>)
        ELSE IF DecimalValue(body) > max THEN Err(<<>>)
        ELSE Ok(DecimalValue(body))

\* the three field texts taken from the captures, or Panic from a bad slice
FieldTexts(s) ==
    IF MatchDashed(s)
    THEN Ok(<<SubSeq(s, 1, 3), SubSeq(s, 5, 6), SubSeq(s, 8, 11)>>)
    ELSE LET a == ByteSlice(s, 0, 3)
             g == ByteSlice(s, 3, 5)
             n == ByteSlice(s, 5, 9)
         IN  IF IsOk(a) /\ IsOk(g) /\ IsOk(n)
             THEN Ok(<<Chars(a.val), Chars(g.val), Chars(n.val)>>)
             ELSE Panic

parse_components(s) ==
    IF ~TIN_PATTERN(s) THEN Err(InvalidFormat(s))
    ELSE LET f == FieldTexts(s)
         IN  IF ~IsOk(f) THEN Panic
             ELSE LET a == ParseUint(f.val[1], U16Max)
                      g == ParseUint(f.val[2], U8Max)
                      n == ParseUint(f.val[3], U16Max)
                  IN  IF IsOk(a) /\ IsOk(g) /\ IsOk(n)
                      THEN Ok(<<a.val, g.val, n.val>>)
                      ELSE Panic

(***************************************************************************)
(* from_str of the three types and the dispatcher.                         *)
(***************************************************************************)
SsnFromStr(s) ==
    LET c == parse_components(s)
    IN  IF IsOk(c) THEN SsnNew(c.val[1], c.val[2], c.val[3]) ELSE c

ItinFromStr(s) ==
    LET c == parse_components(s)
    IN  IF IsOk(c) THEN ItinNew(c.val[1], c.val[2], c.val[3]) ELSE c

AtinFromStr(s) ==
    LET c == parse_components(s)
    IN  IF IsOk(c) THEN AtinNew(c.val[1], c.val[2], c.val[3]) ELSE c

\* Ok(Tin::X(r?)): wrap a success, pass an error through
WrapTin(r) == IF IsOk(r) THEN Ok(Tin(r.val)) ELSE r

\* the patterns and guards of the three type arms of the match on area
SsnArm(a, g) == a \in 1..665 \/ a \in 667..899

AtinArm(a, g) == a \in 900..999 /\ g = 93

ItinArm(a, g) == a \in 900..999 /\ is_valid_itin_group(g)

\* TinDispatch without the ATIN arm
TinDispatchNoAtin(a, g, n) ==
    IF a \in 1..665 \/ a \in 667..899 THEN WrapTin(SsnNew(a, g, n))
    ELSE IF a \in 900..999 /\ is_valid_itin_group(g) THEN WrapTin(ItinNew(a, g, n))
    ELSE IF a = 0 \/ a = 666 THEN Err(InvalidArea(a))
    ELSE Err(InvalidGroup(g))

\* TinDispatch reporting the area whenever no arm matches
TinDispatchAreaOnly(a, g, n) ==
    IF a \in 1..665 \/ a \in 667..899 THEN WrapTin(SsnNew(a, g, n))
    ELSE IF a \in 900..999 /\ g = 93 THEN WrapTin(AtinNew(a, g, n))
    ELSE IF a \in 900..999 /\ is_valid_itin_group(g) THEN WrapTin(ItinNew(a, g, n))
    ELSE Err(InvalidArea(a))

\* the match on area of Tin::from_str
TinDispatch(a, g, n) ==
    IF SsnArm(a, g) THEN WrapTin(SsnNew(a, g, n))
    ELSE IF AtinArm(a, g) THEN WrapTin(AtinNew(a, g, n))
    ELSE IF ItinArm(a, g) THEN WrapTin(ItinNew(a, g, n))
    ELSE IF a = 0 \/ a = 666 THEN Err(InvalidArea(a))
    ELSE Err(InvalidGroup(g))

TinFromStr(s) ==
    LET c == parse_components(s)
    IN  IF IsOk(c) THEN TinDispatch(c.val[1], c.val[2], c.val[3]) ELSE c

(***************************************************************************)
(* Accessors and renderings.                                               *)
(***************************************************************************)
Inner(v) == IF v.type = "Tin" THEN v.inner ELSE v

\* area() narrowing the field to a byte
AreaOfTruncated(v) == Inner(v).area % 256

AreaOf(v) == Inner(v).area
GroupOf(v) == Inner(v).group
SerialOf(v) == Inner(v).serial

RECURSIVE Decimal(_)
Decimal(n) == IF n < 10 THEN <<DigitChar(n)>> ELSE Decimal(n \div 10) \o <<DigitChar(n % 10)>>

RECURSIVE ZeroPad(_, _)
ZeroPad(s, w) == IF Len(s) >= w THEN s ELSE ZeroPad(<<"0">> \o s, w)

\* the format spec {:0w}
Pad(n, w) == ZeroPad(Decimal(n), w)

\* write!(f, "{:03}-{:02}-{:04}", area, group, serial)
FormatFull(a, g, n) == Pad(a, 3) \o <<"-">> \o Pad(g, 2) \o <<"-">> \o Pad(n, 4)

\* Display without the zero padding of the fields
DisplayUnpadded(v) ==
    Decimal(Inner(v).area) \o <<"-">> \o Decimal(Inner(v).group) \o <<"-">>
      \o Decimal(Inner(v).serial)

Display(v) == FormatFull(Inner(v).area, Inner(v).group, Inner(v).serial)

TypeName(t) ==
    CASE t = "Ssn" -> <<"S", "s", "n">>
      [] t = "Itin" -> <<"I", "t", "i", "n">>
      [] t = "Atin" -> <<"A", "t", "i", "n">>

\* Debug masking the area only
DebugShowsGroup(v) ==
    TypeName(Inner(v).type) \o <<"(", "X", "X", "X", "-">> \o Pad(Inner(v).group, 2)
      \o <<"-">> \o Pad(Inner(v).serial, 4) \o <<")">>

\* write!(f, "Ssn(XXX-XX-{:04})", serial), and the same for Itin and Atin
Debug(v) ==
    TypeName(Inner(v).type) \o <<"(", "X", "X", "X", "-", "X", "X", "-">>
      \o Pad(Inner(v).serial, 4) \o <<")">>

(***************************************************************************)
(* Inputs.                                                                 *)
(***************************************************************************)
Triples == AreaSamples \X GroupSamples \X SerialSamples

\* the undashed spelling of a field triple
FormatPlain(a, g, n) == Pad(a, 3) \o Pad(g, 2) \o Pad(n, 4)

\* the triples whose spellings are also damaged by one edit
MutTriples == {<<123, 45, 1234>>, <<900, 93, 0>>, <<899, 0, 1>>}

Replaced(s) == {[s EXCEPT ![i] = c] : i \in 1..Len(s), c \in MutChars}
Deleted(s) == {SubSeq(s, 1, i - 1) \o SubSeq(s, i + 1, Len(s)) : i \in 1..Len(s)}
Inserted(s) ==
    {SubSeq(s, 1, i - 1) \o <<c>> \o SubSeq(s, i, Len(s)) : i \in 1..(Len(s) + 1), c \in MutChars}

Edits(s) == Replaced(s) \cup Deleted(s) \cup Inserted(s)

\* the texts tried with a field triple: its two spellings and, for a few
\* triples, every single-character edit of them, and the empty string
Texts(a, g, n) ==
    {FormatFull(a, g, n), FormatPlain(a, g, n)}
      \cup (IF <<a, g, n>> \in MutTriples
            THEN Edits(FormatFull(a, g, n)) \cup Edits(FormatPlain(a, g, n)) \cup {<<>>}
            ELSE {})

(***************************************************************************)
(* The state machine: the operations of the public surface applied to the  *)
(* drawn input.  val is the validated value bound by the last construction *)
(* (NoVal when it failed), res the result of the last operation.           *)
(***************************************************************************)
Init ==
    /\ area \in AreaSamples
    /\ group \in GroupSamples
    /\ serial \in SerialSamples
    /\ text \in Texts(area, group, serial)
    /\ val = NoVal
    /\ res = NoRes
    /\ op = "init"

Construct(name, r) ==
    /\ op' = name
    /\ res' = r
    /\ val' = IF IsOk(r) THEN r.val ELSE NoVal
    /\ UNCHANGED <<area, group, serial, text>>

CallSsnNew == Construct("Ssn::new", SsnNew(area, group, serial))
CallItinNew == Construct("Itin::new", ItinNew(area, group, serial))
CallAtinNew == Construct("Atin::new", AtinNew(area, group, serial))
CallSsnFromStr == Construct("Ssn::from_str", SsnFromStr(text))
CallItinFromStr == Construct("Itin::from_str", ItinFromStr(text))
CallAtinFromStr == Construct("Atin::from_str", AtinFromStr(text))
CallTinFromStr == Construct("Tin::from_str", TinFromStr(text))

CallParseComponents ==
    /\ op' = "parse_components"
    /\ res' = parse_components(text)
    /\ UNCHANGED <<area, group, serial, text, val>>

\* an operation taking &self: the value is left as it is
Observe(name, r) ==
    /\ val # NoVal
    /\ op' = name
    /\ res' = r
    /\ UNCHANGED <<area, group, serial, text, val>>

CallArea == Observe("area", Ok(AreaOf(val)))
CallGroup == Observe("group", Ok(GroupOf(val)))
CallSerial == Observe("serial", Ok(SerialOf(val)))
CallDisplay == Observe("Display", Ok(Display(val)))
CallDebug == Observe("Debug", Ok(Debug(val)))

Next ==
    \/ CallSsnNew
    \/ CallItinNew
    \/ CallAtinNew
    \/ CallSsnFromStr
    \/ CallItinFromStr
    \/ CallAtinFromStr
    \/ CallTinFromStr
    \/ CallParseComponents
    \/ CallArea
    \/ CallGroup
    \/ CallSerial
    \/ CallDisplay
    \/ CallDebug

Spec == Init /\ [][Next]_vars

(***************************************************************************)
(* The rules of the three types as ranges, and what the properties share.  *)
(***************************************************************************)
Types == {"Ssn", "Itin", "Atin"}

AreaRule(t) == IF t = "Ssn" THEN (1..665) \cup (667..899) ELSE 900..999

GroupRule(t) ==
    CASE t = "Ssn" -> 1..99
      [] t = "Itin" -> (50..65) \cup (70..88) \cup (90..92) \cup (94..99)
      [] t = "Atin" -> {93}

SerialRule(t) == IF t = "Ssn" THEN 1..9999 ELSE 0..9999

New(t, a, g, n) ==
    CASE t = "Ssn" -> SsnNew(a, g, n)
      [] t = "Itin" -> ItinNew(a, g, n)
      [] t = "Atin" -> AtinNew(a, g, n)

\* the types whose constructor accepts the drawn field triple
AcceptedBy == {t \in Types : IsOk(New(t, area, group, serial))}

\* the drawn triple fits the field widths and the text is one of its spellings
SpelledTriple ==
    /\ area \in 0..999 /\ group \in 0..99 /\ serial \in 0..9999
    /\ text \in {FormatFull(area, group, serial), FormatPlain(area, group, serial)}

\* C1: a triple accepted by exactly one type is detected by Tin::from_str as
\* that type, and the wrapped value carries the triple
C1_DetectsAcceptedType ==
    (op = "Tin::from_str" /\ SpelledTriple /\ Cardinality(AcceptedBy) = 1) =>
        /\ IsOk(res)
        /\ res.val.type = "Tin"
        /\ res.val.variant \in AcceptedBy
        /\ res.val.inner.type = res.val.variant
        /\ AreaOf(res.val) = area
        /\ GroupOf(res.val) = group
        /\ SerialOf(res.val) = serial

C1_Witness ==
    /\ op = "Tin::from_str" /\ SpelledTriple /\ AcceptedBy = {"Atin"}
    /\ IsOk(res) /\ res.val.variant = "Atin" /\ Len(text) = 9

\* C2 as stated: a triple accepted by no type is rejected by Tin::from_str with
\* the first field, area before group, that fails the rule of all three types
C2_FirstFieldFailingAllThree ==
    (op = "Tin::from_str" /\ SpelledTriple /\ AcceptedBy = {}) =>
        /\ IsErr(res)
        /\ IF \A t \in Types : area \notin AreaRule(t)
           THEN res.err = InvalidArea(area)
           ELSE /\ \A t \in Types : group \notin GroupRule(t)
                /\ res.err = InvalidGroup(group)

\* C2 amended: the rejection names the first field, in the order area, group,
\* serial, that fails the rule of every type that accepts the fields before it
C2_FirstFieldFailingCandidates ==
    (op = "Tin::from_str" /\ SpelledTriple /\ AcceptedBy = {}) =>
        LET byArea == {t \in Types : area \in AreaRule(t)}
            byGroup == {t \in byArea : group \in GroupRule(t)}
            bySerial == {t \in byGroup : serial \in SerialRule(t)}
        IN  /\ IsErr(res)
            /\ bySerial = {}
            /\ res.err = IF byArea = {} THEN InvalidArea(area)
                         ELSE IF byGroup = {} THEN InvalidGroup(group)
                         ELSE InvalidSerial(serial)

C2_Witness ==
    /\ op = "Tin::from_str" /\ SpelledTriple /\ AcceptedBy = {}
    /\ area = 900 /\ group = 10 /\ IsErr(res) /\ res.err = InvalidGroup(10)

\* C3: Ssn::new succeeds exactly when area is in 1..665 or 667..899, group in
\* 1..99 and serial in 1..9999
C3_SsnNewAccepts ==
    op = "Ssn::new" =>
        (IsOk(res) <=> /\ area \in (1..665) \cup (667..899)
                       /\ group \in 1..99
                       /\ serial \in 1..9999)

C3_Witness ==
    /\ op = "Ssn::new" /\ IsOk(res) /\ area = 899 /\ group = 99 /\ serial = 9999

\* C4: Itin::new succeeds exactly when area is in 900..999, group in 50..65,
\* 70..88, 90..92 or 94..99, and serial in 0..9999
C4_ItinNewAccepts ==
    op = "Itin::new" =>
        (IsOk(res) <=> /\ area \in 900..999
                       /\ group \in (50..65) \cup (70..88) \cup (90..92) \cup (94..99)
                       /\ serial \in 0..9999)

C4_Witness ==
    /\ op = "Itin::new" /\ IsOk(res) /\ area = 999 /\ group = 94 /\ serial = 0

\* C5: Atin::new succeeds exactly when area is in 900..999, group is 93 and
\* serial in 0..9999
C5_AtinNewAccepts ==
    op = "Atin::new" =>
        (IsOk(res) <=> area \in 900..999 /\ group = 93 /\ serial \in 0..9999)

C5_Witness ==
    /\ op = "Atin::new" /\ IsOk(res) /\ area = 900 /\ group = 93 /\ serial = 0

CtorType == CASE op = "Ssn::new" -> "Ssn" [] op = "Itin::new" -> "Itin" [] op = "Atin::new" -> "Atin"

\* C6: a failing constructor reports the first invalid field in the order
\* area, group, serial, with the input value of that field
C6_FirstViolationReported ==
    (op \in {"Ssn::new", "Itin::new", "Atin::new"} /\ ~IsOk(res)) =>
        /\ IsErr(res)
        /\ res.err = IF area \notin AreaRule(CtorType) THEN InvalidArea(area)
                     ELSE IF group \notin GroupRule(CtorType) THEN InvalidGroup(group)
                     ELSE InvalidSerial(serial)

\* area, group and serial all invalid for ITIN: the area is the one reported
C6_Witness ==
    /\ op = "Itin::new" /\ area = 899 /\ group = 93 /\ serial = 10000
    /\ IsErr(res) /\ res.err = InvalidArea(899)

\* the two accepted shapes, over the ASCII digits
DashedShape(s) ==
    /\ Len(s) = 11
    /\ \A i \in {1, 2, 3, 5, 6, 8, 9, 10, 11} : s[i] \in AsciiDigits
    /\ s[4] = "-" /\ s[7] = "-"

PlainShape(s) == Len(s) = 9 /\ \A i \in 1..9 : s[i] \in AsciiDigits

\* C7: parse_components returns Ok exactly for the two shapes and
\* InvalidFormat with the whole input for every other string
C7_ExactlyTwoShapes ==
    op = "parse_components" =>
        IF DashedShape(text) \/ PlainShape(text)
        THEN IsOk(res)
        ELSE IsErr(res) /\ res.err.kind = "InvalidFormat" /\ res.err.input = text

FromStr(t, s) ==
    CASE t = "Ssn" -> SsnFromStr(s)
      [] t = "Itin" -> ItinFromStr(s)
      [] t = "Atin" -> AtinFromStr(s)

\* the dashed canonical form of a text of one of the two shapes
Canonical(s) ==
    IF Len(s) = 11 THEN s
    ELSE SubSeq(s, 1, 3) \o <<"-">> \o SubSeq(s, 4, 5) \o <<"-">> \o SubSeq(s, 6, 9)

\* C8: parsing the full rendering of a validated value gives the value back,
\* and the full rendering of a parsed text is the dashed form of that text
C8_RoundTrip ==
    /\ val.type \in Types => FromStr(val.type, Display(val)) = Ok(val)
    /\ (op \in {"Ssn::from_str", "Itin::from_str", "Atin::from_str"} /\ IsOk(res)) =>
           Display(res.val) = Canonical(text)

\* an undashed text with leading zeros in every field
C8_Witness ==
    /\ op = "Ssn::from_str" /\ IsOk(res) /\ Len(text) = 9
    /\ res.val = Ssn(1, 1, 1)
    /\ Display(res.val) = <<"0", "0", "1", "-", "0", "1", "-", "0", "0", "0", "1">>

\* the four digits of a serial in 0..9999
Serial4(n) ==
    <<DigitChar(n \div 1000), DigitChar((n \div 100) % 10),
      DigitChar((n \div 10) % 10), DigitChar(n % 10)>>

\* C9: the masked rendering is the type name, XXX-XX- and the four digits of
\* the serial; it is the same for every area and group the type accepts with
\* that serial, and a Tin renders as the value it wraps
C9_MaskHidesAreaAndGroup ==
    op = "Debug" =>
        LET d == res.val
            v == Inner(val)
            k == Len(d) - 13
        IN  /\ k >= 0
            /\ \A i \in 1..k : d[i] \notin AsciiDigits
            /\ SubSeq(d, k + 1, Len(d)) =
                   <<"(", "X", "X", "X", "-", "X", "X", "-">> \o Serial4(v.serial) \o <<")">>
            /\ \A a \in AreaSamples, g \in GroupSamples :
                   IsOk(New(v.type, a, g, v.serial)) =>
                       Debug(New(v.type, a, g, v.serial).val) = d
            /\ val.type = "Tin" => d = Debug(val.inner)

C9_Witness ==
    /\ op = "Debug" /\ val.type = "Tin" /\ val.variant = "Itin" /\ SerialOf(val) = 1
    /\ res.val = <<"I", "t", "i", "n", "(", "X", "X", "X", "-", "X", "X", "-",
                   "0", "0", "0", "1", ")">>

\* the field triple written in a text of one of the two shapes
TextTriple(s) ==
    LET d == SelectSeq(s, LAMBDA c : c # "-")
    IN  <<100 * DigitVal(d[1]) + 10 * DigitVal(d[2]) + DigitVal(d[3]),
          10 * DigitVal(d[4]) + DigitVal(d[5]),
          1000 * DigitVal(d[6]) + 100 * DigitVal(d[7]) + 10 * DigitVal(d[8]) + DigitVal(d[9])>>

Constructors ==
    {"Ssn::new", "Itin::new", "Atin::new",
     "Ssn::from_str", "Itin::from_str", "Atin::from_str", "Tin::from_str"}

\* a held value is in the ranges of its type, its accessors give the fields
\* it was made from
C10_ValueValid ==
    /\ val # NoVal =>
           /\ Inner(val).type \in Types
           /\ Inner(val).area \in AreaRule(Inner(val).type)
           /\ Inner(val).group \in GroupRule(Inner(val).type)
           /\ Inner(val).serial \in SerialRule(Inner(val).type)
    /\ (op \in {"Ssn::new", "Itin::new", "Atin::new"} /\ IsOk(res)) =>
           /\ res.val = val
           /\ <<AreaOf(val), GroupOf(val), SerialOf(val)>> = <<area, group, serial>>
    /\ (op \in {"Ssn::from_str", "Itin::from_str", "Atin::from_str", "Tin::from_str"}
          /\ IsOk(res)) =>
           /\ res.val = val
           /\ <<AreaOf(val), GroupOf(val), SerialOf(val)>> = TextTriple(text)
    /\ op = "area" => res.val = Inner(val).area
    /\ op = "group" => res.val = Inner(val).group
    /\ op = "serial" => res.val = Inner(val).serial

\* an operation that is not a construction leaves the held value as it is
C10_ValueKept == (val # NoVal /\ op' \notin Constructors) => val' = val

\* C10: every validated value obtained satisfies the rules of its type, its
\* accessors return the fields it was constructed from, and no operation
\* changes it afterwards
C10_ValidAndImmutable == []C10_ValueValid /\ [][C10_ValueKept]_vars

C10_Witness ==
    /\ op = "area" /\ val.type = "Tin" /\ val.variant = "Itin"
    /\ res.val = 999 /\ GroupOf(val) = 99 /\ SerialOf(val) = 9999

\* the result the stated precedence gives for an extracted field triple
ByPrecedence(a, g, n) ==
    IF a \in (1..665) \cup (667..899)
    THEN IF IsOk(SsnNew(a, g, n)) THEN Ok(Tin(Ssn(a, g, n))) ELSE SsnNew(a, g, n)
    ELSE IF a \in 900..999 /\ g = 93
    THEN IF IsOk(AtinNew(a, g, n)) THEN Ok(Tin(Atin(a, g, n))) ELSE AtinNew(a, g, n)
    ELSE IF a \in 900..999 /\ g \in GroupRule("Itin")
    THEN IF IsOk(ItinNew(a, g, n)) THEN Ok(Tin(Itin(a, g, n))) ELSE ItinNew(a, g, n)
    ELSE IF a \in {0, 666} THEN Err(InvalidArea(a))
    ELSE Err(InvalidGroup(g))

\* C11: Tin::from_str on a text of one of the two shapes gives the result of
\* the precedence SSN area, ATIN group, ITIN group, area 0 or 666, group,
\* applied to the fields written in the text; on any other text it gives
\* InvalidFormat with the text
C11_DispatchPrecedence ==
    op = "Tin::from_str" =>
        IF DashedShape(text) \/ PlainShape(text)
        THEN res = ByPrecedence(TextTriple(text)[1], TextTriple(text)[2], TextTriple(text)[3])
        ELSE IsErr(res) /\ res.err.kind = "InvalidFormat" /\ res.err.input = text

\* the undashed spelling of a text of one of the two shapes
Undashed(s) == SelectSeq(s, LAMBDA c : c # "-")

\* C12: on every text TIN_PATTERN matches, parse_components neither panics
\* nor fails: it returns the three fields as written, without any range
\* check, and the same triple for the dashed and the undashed spelling
C12_ExtractionCannotFail ==
    (op = "parse_components" /\ TIN_PATTERN(text)) =>
        /\ IsOk(res)
        /\ res.val = TextTriple(text)
        /\ res.val[1] \in 0..999 /\ res.val[2] \in 0..99 /\ res.val[3] \in 0..9999
        /\ parse_components(Canonical(Undashed(text))) = res
        /\ parse_components(Undashed(text)) = res

\* the type arms of the dispatcher whose guard the drawn triple satisfies
ArmsMatched ==
    {t \in Types : CASE t = "Ssn" -> SsnArm(area, group)
                     [] t = "Atin" -> AtinArm(area, group)
                     [] t = "Itin" -> ItinArm(area, group)}

\* C13: no field triple is accepted by more than one of Ssn::new, Itin::new
\* and Atin::new, and none satisfies the guard of more than one type arm of
\* the dispatcher
C13_TypesExclusive ==
    /\ Cardinality(AcceptedBy) <= 1
    /\ Cardinality(ArmsMatched) <= 1

\* an ATIN triple next to the ITIN groups: accepted and matched as ATIN only
C13_Witness ==
    /\ op = "Atin::new" /\ IsOk(res) /\ area = 999 /\ group = 93
    /\ AcceptedBy = {"Atin"} /\ ArmsMatched = {"Atin"}
    /\ ~IsOk(ItinNew(area, group, serial))

====
